---- MODULE Spec2Model ----
(***************************************************************************)
(* conda2pixi: conversion of conda environment YAMLs into one pixi         *)
(* manifest.  The model covers the dependency-spec parser (parse_dep,      *)
(* convert_single_equals), the type classifier (split_by_type,             *)
(* split_conda_pip_raw) and the assembling loop (collect_and_convert,      *)
(* main) of src/conda2pixi.py.                                             *)
(*                                                                         *)
(* Python strings are sequences of one-character strings, so that the      *)
(* character-level operations of the code (the regular expression,         *)
(* startswith, split, join) are computed and not assumed.                  *)
(***************************************************************************)
EXTENDS Integers, Sequences, FiniteSets, TLC

VARIABLES
    dep,        \* parser: the token handed to parse_dep
    parsed,     \* parser: what parse_dep returned
    deps,       \* classifier: the raw dependency list, as it is in memory
    passed,     \* classifier: the raw dependency list as it was first passed
    first,      \* classifier: outcome of the first split_conda_pip_raw(deps)
    second,     \* classifier: outcome of a second split_conda_pip_raw(deps)
    pc,         \* run: where main is
    nfiles,     \* run: number of input files explode_filenames found
    loaded,     \* run: the documents load_conda_yaml has returned so far
    all_chans,  \* run: collect_and_convert's all_chans
    envs,       \* run: collect_and_convert's envs
    feat,       \* run: collect_and_convert's feat
    err,        \* run: the exception that ended the run, "None" if none
    pixi        \* run: the manifest write_toml has written, if any

\* ------------------------------------------------------------------------
\* Bounds of the model
\* ------------------------------------------------------------------------

\* longest dependency token handed to parse_dep
MaxLen == 8

\* longest raw dependency list handed to split_conda_pip_raw
MaxDeps == 3

\* largest number of input files of one run
MaxDocs == 3

\* ------------------------------------------------------------------------
\* Characters
\* ------------------------------------------------------------------------

\* the line break, the one character '.' of a regular expression refuses
NL == "\n"

\* characters \w matches, among those the model draws
WordChars == {"1"}

\* the characters tokens are drawn from: word characters, the hyphen, the
\* dot, the equals sign, one other operator character and the line break
Alphabet == WordChars \cup {"-", ".", "=", ">", NL}

\* ------------------------------------------------------------------------
\* Spec Parser
\* ------------------------------------------------------------------------

\* the character class [\w-] of PATTERN_SPEC
IsNameChar(c) == c \in WordChars \/ c = "-"

RECURSIVE NameLen(_)
\* number of characters the greedy group (?P<name>[\w-]*) consumes
NameLen(s) ==
    IF s = <<>> \/ ~IsNameChar(Head(s)) THEN 0 ELSE 1 + NameLen(Tail(s))

\* what follows the name group
AfterName(s) == SubSeq(s, NameLen(s) + 1, Len(s))

HasChar(s, c) == \E i \in 1..Len(s) : s[i] = c

\* (?P<version>.*)$ : '.' matches no line break, '$' matches at the end of
\* the string and just before a line break that ends the string
Matches(s) ==
    LET r == AfterName(s)
    IN  \/ ~HasChar(r, NL)
        \/ /\ r[Len(r)] = NL
           /\ ~HasChar(SubSeq(r, 1, Len(r) - 1), NL)

MatchName(s) == SubSeq(s, 1, NameLen(s))

MatchVersion(s) ==
    LET r == AfterName(s)
    IN  IF HasChar(r, NL) THEN SubSeq(r, 1, Len(r) - 1) ELSE r

RECURSIVE Split(_, _)
\* str.split(sep) for a one-character separator
Split(s, sep) ==
    IF ~HasChar(s, sep) THEN <<s>>
    ELSE LET i == CHOOSE k \in 1..Len(s) :
                     s[k] = sep /\ \A j \in 1..(k - 1) : s[j] # sep
         IN  <<SubSeq(s, 1, i - 1)>> \o Split(SubSeq(s, i + 1, Len(s)), sep)

RECURSIVE Join(_, _)
\* sep.join(parts)
Join(parts, sep) ==
    IF parts = <<>> THEN <<>>
    ELSE IF Len(parts) = 1 THEN parts[1]
    ELSE parts[1] \o <<sep>> \o Join(Tail(parts), sep)

\* number of parts below which convert_single_equals appends a wildcard
MinParts == 3

\* a variant that pads in a loop, until there are MinParts parts
convert_single_equals_pad_loop(spec) ==
    LET version == Tail(spec)
    IN  IF HasChar(version, "=") THEN spec
        ELSE LET parts  == Split(version, ".")
                 stars  == [i \in 1..(MinParts - Len(parts)) |-> <<"*">>]
                 padded == IF Len(parts) < MinParts THEN parts \o stars ELSE parts
             IN  Join(padded, ".")

\* a variant that rewrites compound constraints too
convert_single_equals_compound(spec) ==
    LET parts  == Split(Tail(spec), ".")
        padded == IF Len(parts) < MinParts THEN Append(parts, <<"*">>) ELSE parts
    IN  Join(padded, ".")

convert_single_equals(spec) ==
    LET version == Tail(spec)
    IN  IF HasChar(version, "=") THEN spec
        ELSE LET parts  == Split(version, ".")
                 padded == IF Len(parts) < MinParts
                           THEN Append(parts, <<"*">>) ELSE parts
             IN  Join(padded, ".")

StartsWith(s, p) == Len(s) >= Len(p) /\ SubSeq(s, 1, Len(p)) = p

NoResult == [ok |-> FALSE, err |-> "NotCalled", name |-> <<>>, version |-> <<>>]

parse_dep(d) ==
    IF ~Matches(d)
    THEN [ok |-> FALSE, err |-> "MalformedSpec", name |-> d, version |-> <<>>]
    ELSE LET name    == MatchName(d)
             version == IF MatchVersion(d) = <<>> THEN <<"*">> ELSE MatchVersion(d)
         IN  [ok |-> TRUE, err |-> "None", name |-> name,
              version |-> IF StartsWith(version, <<"=">>) /\ ~StartsWith(version, <<"=", "=">>)
                          THEN convert_single_equals(version) ELSE version]

\* ------------------------------------------------------------------------
\* Type Classifier
\* ------------------------------------------------------------------------

\* a dict with no key
EmptyDict == [k \in {} |-> <<>>]

\* dict.pop(key) leaves the dict without the key
DictPop(d, key) == [k \in DOMAIN d \ {key} |-> d[k]]

\* entries of a raw dependency list: type(i).__name__ and the value
StrEntry(s)  == [type |-> "str",  str |-> s,    dict |-> EmptyDict]
DictEntry(d) == [type |-> "dict", str |-> <<>>, dict |-> d]
IntEntry     == [type |-> "int",  str |-> <<>>, dict |-> EmptyDict]

\* res[tn].append(i) for every i: the keys are the type names that occur
split_by_type(seq) ==
    [tn \in {seq[i].type : i \in 1..Len(seq)} |->
        SelectSeq(seq, LAMBDA e : e.type = tn)]

RECURSIVE pip_loop(_, _, _, _)
\* the loop "for d in dicts" from its k-th round on; ds holds the dicts as
\* the rounds before left them (d.pop changes the dict in place)
pip_loop(ds, k, pip, remainder) ==
    IF k > Len(ds)
    THEN [raised |-> FALSE, pip |-> pip, remainder |-> remainder, dicts |-> ds]
    ELSE IF "pip" \in DOMAIN ds[k]
    THEN LET d == DictPop(ds[k], "pip")
             after == [ds EXCEPT ![k] = d]
         IN  IF DOMAIN d # {}
             THEN [raised |-> TRUE, pip |-> ds[k]["pip"], remainder |-> <<d>>,
                   dicts |-> after]
             ELSE pip_loop(after, k + 1, ds[k]["pip"], remainder)
    ELSE pip_loop(ds, k + 1, pip, Append(remainder, ds[k]))

RECURSIVE WriteBack(_, _)
\* the list whose dict objects are, in order, the dicts ds
WriteBack(seq, ds) ==
    IF seq = <<>> THEN <<>>
    ELSE IF Head(seq).type = "dict"
    THEN <<DictEntry(Head(ds))>> \o WriteBack(Tail(seq), Tail(ds))
    ELSE <<Head(seq)>> \o WriteBack(Tail(seq), ds)

Raise(exc, types, dicts, after) ==
    [ok |-> FALSE, err |-> exc, conda |-> <<>>, pip |-> <<>>,
     types |-> types, dicts |-> dicts, deps |-> after]

NotSplit == Raise("NotCalled", {}, <<>>, <<>>)

\* the outcome of split_conda_pip_raw(seq): the pair returned or the
\* exception raised, and the list as the call leaves it (field deps)
split_conda_pip_raw(seq) ==
    LET deps_by_type == split_by_type(seq)
        others == DOMAIN deps_by_type \ {"str", "dict"}
    IN  IF "str" \notin DOMAIN deps_by_type
        THEN Raise("KeyError", {"str"}, <<>>, seq)
        ELSE IF "dict" \notin DOMAIN deps_by_type
        THEN Raise("KeyError", {"dict"}, <<>>, seq)
        ELSE IF others # {}
        THEN Raise("UnsupportedEntryType", others, <<>>, seq)
        ELSE
        LET conda == [i \in 1..Len(deps_by_type["str"]) |-> deps_by_type["str"][i].str]
            dicts == [i \in 1..Len(deps_by_type["dict"]) |-> deps_by_type["dict"][i].dict]
            loop  == pip_loop(dicts, 1, <<>>, <<>>)
            after == WriteBack(seq, loop.dicts)
        IN  IF loop.raised
            THEN Raise("MalformedPipEntry", {}, loop.remainder, after)
            ELSE IF loop.remainder # <<>>
            THEN Raise("UnsupportedMappingEntry", {}, loop.remainder, after)
            ELSE [ok |-> TRUE, err |-> "None", conda |-> conda, pip |-> loop.pip,
                  types |-> {}, dicts |-> <<>>, deps |-> after]

\* ------------------------------------------------------------------------
\* Inputs of the classifier
\* ------------------------------------------------------------------------

Numpy == <<"1">>
NumpyEq == <<"1", "=", "1">>
Flask == <<"1", "-">>
Extra == <<<<"-">>>>

\* the entries raw dependency lists are drawn from: two plain strings, two
\* pip mappings, a pip mapping with a further key, a mapping without the
\* pip key, the empty mapping, and an entry that is neither
Entries ==
    {StrEntry(Numpy), StrEntry(NumpyEq),
     DictEntry([pip |-> <<Flask>>]), DictEntry([pip |-> <<Numpy, Flask>>]),
     DictEntry([pip |-> <<Flask>>, extra |-> Extra]),
     DictEntry([extra |-> Extra]), DictEntry(EmptyDict),
     IntEntry}

\* ------------------------------------------------------------------------
\* Manifest Assembler
\* ------------------------------------------------------------------------

\* ord(c) of the characters channel names are written with
CodePoint(c) ==
    CASE c = "-" -> 45  [] c = "a" -> 97  [] c = "b" -> 98  [] c = "c" -> 99
      [] c = "d" -> 100 [] c = "e" -> 101 [] c = "f" -> 102 [] c = "g" -> 103
      [] c = "i" -> 105 [] c = "l" -> 108 [] c = "n" -> 110 [] c = "o" -> 111
      [] c = "r" -> 114 [] c = "s" -> 115 [] c = "t" -> 116 [] c = "u" -> 117

RECURSIVE StrLess(_, _)
\* a < b on Python strings: by code point, a proper prefix first
StrLess(a, b) ==
    IF b = <<>> THEN FALSE
    ELSE IF a = <<>> THEN TRUE
    ELSE IF Head(a) # Head(b) THEN CodePoint(Head(a)) < CodePoint(Head(b))
    ELSE StrLess(Tail(a), Tail(b))

RECURSIVE SortedSeq(_)
\* sorted(S) of a set of strings
SortedSeq(S) ==
    IF S = {} THEN <<>>
    ELSE LET m == CHOOSE x \in S : \A y \in S \ {x} : StrLess(x, y)
         IN  <<m>> \o SortedSeq(S \ {m})

\* set(seq)
SetOf(seq) == {seq[i] : i \in 1..Len(seq)}

CondaForge == <<"c", "o", "n", "d", "a", "-", "f", "o", "r", "g", "e">>
Conda      == <<"c", "o", "n", "d", "a">>
Bioconda   == <<"b", "i", "o", "c", "o", "n", "d", "a">>
Defaults   == <<"d", "e", "f", "a", "u", "l", "t", "s">>

\* a variant that sorts without removing duplicates: sorted(all_chans)
RECURSIVE InsertSorted(_, _)
InsertSorted(sorted, x) ==
    IF sorted = <<>> THEN <<x>>
    ELSE IF StrLess(x, Head(sorted)) THEN <<x>> \o sorted
    ELSE <<Head(sorted)>> \o InsertSorted(Tail(sorted), x)

RECURSIVE SortedList(_)
SortedList(seq) ==
    IF seq = <<>> THEN <<>> ELSE InsertSorted(SortedList(Tail(seq)), Head(seq))

global_channels_keep_duplicates(chans) ==
    IF chans = <<>> THEN <<CondaForge>> ELSE SortedList(chans)

\* sorted(set(all_chans)) or ["conda-forge"]
global_channels(chans) ==
    IF SortedSeq(SetOf(chans)) = <<>> THEN <<CondaForge>> ELSE SortedSeq(SetOf(chans))

\* a variant that keeps the value a key already has: d.setdefault(key, value)
DictPutKeepFirst(d, key, value) ==
    [k \in DOMAIN d \cup {key} |-> IF k \in DOMAIN d THEN d[k] ELSE value]

\* d[key] = value on a dict
DictPut(d, key, value) ==
    [k \in DOMAIN d \cup {key} |-> IF k = key THEN value ELSE d[k]]

RECURSIVE parse_deps_into(_, _)
\* the loop of parse_deps over the entries left, res being the dict so far
parse_deps_into(entries, res) ==
    IF entries = <<>>
    THEN [ok |-> TRUE, err |-> "None", res |-> res]
    ELSE LET kv == parse_dep(Head(entries))
         IN  IF ~kv.ok
             THEN [ok |-> FALSE, err |-> kv.err, res |-> EmptyDict]
             ELSE parse_deps_into(Tail(entries), DictPut(res, kv.name, kv.version))

parse_deps(entries) == parse_deps_into(entries, EmptyDict)

split_conda_pip(seq) ==
    LET raw   == split_conda_pip_raw(seq)
        conda == parse_deps(raw.conda)
        pip   == parse_deps(raw.pip)
    IN  IF ~raw.ok
        THEN [ok |-> FALSE, err |-> raw.err, conda |-> EmptyDict, pip |-> EmptyDict]
        ELSE IF ~conda.ok
        THEN [ok |-> FALSE, err |-> conda.err, conda |-> EmptyDict, pip |-> EmptyDict]
        ELSE IF ~pip.ok
        THEN [ok |-> FALSE, err |-> pip.err, conda |-> EmptyDict, pip |-> EmptyDict]
        ELSE [ok |-> TRUE, err |-> "None", conda |-> conda.res, pip |-> pip.res]

\* the value collect_and_convert stores in feat[name]
feature(conda, pip) ==
    ("dependencies" :> conda) @@ ("pypi-dependencies" :> pip)

build_pixi_toml(name, channels, environments, feat_) ==
    [workspace |-> [name |-> name, channels |-> channels,
                    platforms |-> <<"linux-64">>],
     environments |-> environments,
     feature |-> feat_]

NoManifest == build_pixi_toml("", <<>>, EmptyDict, EmptyDict)

\* ------------------------------------------------------------------------
\* Inputs of a run
\* ------------------------------------------------------------------------

\* a token PATTERN_SPEC does not match
BadToken == <<"1", NL, "1">>

PipFlask == DictEntry([pip |-> <<Flask>>])

\* the dependency lists documents are drawn from: two that convert, and
\* one for each way a conversion fails
DocDeps ==
    {<<StrEntry(Numpy), StrEntry(NumpyEq), PipFlask>>,
     <<DictEntry([pip |-> <<Numpy, Flask>>]), StrEntry(Flask)>>,
     <<>>,
     <<StrEntry(Numpy)>>,
     <<StrEntry(Numpy), DictEntry([extra |-> Extra])>>,
     <<StrEntry(Numpy), DictEntry([pip |-> <<Flask>>, extra |-> Extra])>>,
     <<StrEntry(Numpy), IntEntry, PipFlask>>,
     <<StrEntry(BadToken), PipFlask>>,
     <<StrEntry(Numpy), DictEntry([pip |-> <<BadToken>>])>>}

\* the channel lists documents are drawn from
DocChannels ==
    {<<>>, <<CondaForge>>, <<Bioconda, CondaForge>>, <<Defaults, Conda, Defaults>>}

DocNames == {"a", "b"}

\* what load_conda_yaml returns for a file
Docs == [name : DocNames, chans : DocChannels, deps : DocDeps]

\* ------------------------------------------------------------------------
\* Specification of the parser: a token is drawn, parse_dep is applied
\* ------------------------------------------------------------------------

varsParse == <<dep, parsed>>
varsClassify == <<deps, passed, first, second>>
varsRun == <<pc, nfiles, loaded, all_chans, envs, feat, err, pixi>>
vars == <<varsParse, varsClassify, varsRun>>

IdleParse == dep = <<>> /\ parsed = NoResult
IdleClassify == deps = <<>> /\ passed = <<>> /\ first = NotSplit /\ second = NotSplit
IdleRun ==
    /\ pc = "idle" /\ nfiles = 0 /\ loaded = <<>> /\ all_chans = <<>>
    /\ envs = EmptyDict /\ feat = EmptyDict /\ err = "None" /\ pixi = NoManifest

InitParse ==
    /\ \E k \in 0..MaxLen : dep \in [1..k -> Alphabet]
    /\ parsed = NoResult
    /\ IdleClassify
    /\ IdleRun

CallParseDep ==
    /\ parsed = NoResult
    /\ parsed' = parse_dep(dep)
    /\ UNCHANGED <<dep, varsClassify, varsRun>>

NextParse == CallParseDep

SpecParse == InitParse /\ [][NextParse]_vars

\* ------------------------------------------------------------------------
\* Specification of the classifier: a raw dependency list is drawn and
\* split_conda_pip_raw is applied to it, then once more to the same list
\* ------------------------------------------------------------------------

InitClassify ==
    /\ \E k \in 0..MaxDeps : passed \in [1..k -> Entries]
    /\ deps = passed
    /\ first = NotSplit
    /\ second = NotSplit
    /\ IdleParse
    /\ IdleRun

ClassifyFirst ==
    /\ first = NotSplit
    /\ first' = split_conda_pip_raw(deps)
    /\ deps' = first'.deps
    /\ UNCHANGED <<passed, second, varsParse, varsRun>>

ClassifyAgain ==
    /\ first # NotSplit
    /\ second = NotSplit
    /\ second' = split_conda_pip_raw(deps)
    /\ deps' = second'.deps
    /\ UNCHANGED <<passed, first, varsParse, varsRun>>

NextClassify == ClassifyFirst \/ ClassifyAgain

SpecClassify == InitClassify /\ [][NextClassify]_vars

\* ------------------------------------------------------------------------
\* Specification of a run of main
\* ------------------------------------------------------------------------

Init ==
    /\ pc = "explode"
    /\ nfiles \in 0..MaxDocs
    /\ loaded = <<>>
    /\ all_chans = <<>>
    /\ envs = EmptyDict
    /\ feat = EmptyDict
    /\ err = "None"
    /\ pixi = NoManifest
    /\ IdleParse
    /\ IdleClassify

\* explode_filenames: no input file ends the run
ExplodeFilenames ==
    /\ pc = "explode"
    /\ IF nfiles = 0
       THEN pc' = "failed" /\ err' = "NoInputFiles"
       ELSE pc' = "collect" /\ err' = err
    /\ UNCHANGED <<nfiles, loaded, all_chans, envs, feat, pixi, varsParse, varsClassify>>

\* a variant of the round that skips a document that fails to convert
LoadAndConvertSkipFailed ==
    /\ pc = "collect"
    /\ Len(loaded) < nfiles
    /\ \E doc \in Docs :
         LET split == split_conda_pip(doc.deps)
         IN  /\ loaded' = Append(loaded, doc)
             /\ IF ~split.ok
                THEN UNCHANGED <<all_chans, envs, feat>>
                ELSE /\ all_chans' = all_chans \o doc.chans
                     /\ envs' = DictPut(envs, doc.name, <<doc.name>>)
                     /\ feat' = DictPut(feat, doc.name, feature(split.conda, split.pip))
    /\ UNCHANGED <<pc, err, nfiles, pixi, varsParse, varsClassify>>

\* one round of the loop of collect_and_convert
LoadAndConvert ==
    /\ pc = "collect"
    /\ Len(loaded) < nfiles
    /\ \E doc \in Docs :
         LET split == split_conda_pip(doc.deps)
         IN  /\ loaded' = Append(loaded, doc)
             /\ IF ~split.ok
                THEN /\ pc' = "failed"
                     /\ err' = split.err
                     /\ UNCHANGED <<all_chans, envs, feat>>
                ELSE /\ all_chans' = all_chans \o doc.chans
                     /\ envs' = DictPut(envs, doc.name, <<doc.name>>)
                     /\ feat' = DictPut(feat, doc.name, feature(split.conda, split.pip))
                     /\ UNCHANGED <<pc, err>>
    /\ UNCHANGED <<nfiles, pixi, varsParse, varsClassify>>

\* the end of collect_and_convert
FinishCollect ==
    /\ pc = "collect"
    /\ Len(loaded) = nfiles
    /\ all_chans' = global_channels(all_chans)
    /\ pc' = "build"
    /\ UNCHANGED <<nfiles, loaded, envs, feat, err, pixi, varsParse, varsClassify>>

\* build_pixi_toml and write_toml; mode "x" refuses an existing file
BuildAndWrite ==
    /\ pc = "build"
    /\ \E force, exists \in BOOLEAN :
         IF exists /\ ~force
         THEN pc' = "failed" /\ err' = "FileExistsError" /\ pixi' = pixi
         ELSE /\ pc' = "done"
              /\ err' = err
              /\ pixi' = build_pixi_toml("cwd", all_chans, envs, feat)
    /\ UNCHANGED <<nfiles, loaded, all_chans, envs, feat, varsParse, varsClassify>>

Next == ExplodeFilenames \/ LoadAndConvert \/ FinishCollect \/ BuildAndWrite

Spec == Init /\ [][Next]_vars
\* ------------------------------------------------------------------------
\* Claims about the Spec Parser (checked under SpecParse)
\* ------------------------------------------------------------------------

\* number of occurrences of the character c in s
Count(s, c) == Cardinality({i \in 1..Len(s) : s[i] = c})

\* the constraint of the token: what the version group of PATTERN_SPEC holds
Constraint == MatchVersion(dep)

\* the constraint starts with a single '=' and holds no further '='
BareEquals == StartsWith(Constraint, <<"=">>) /\ Count(Constraint, "=") = 1

\* number of dot-separated components of the version after the '='
Components == Count(Constraint, ".") + 1

\* k times the component ".*"
Stars(k) == [i \in 1..(2 * k) |-> IF i % 2 = 1 THEN "." ELSE "*"]

\* C1, as stated: for a constraint that starts with a single '=' and holds
\* no further '=', parse_dep returns the version without the '=', padded
\* with '*' components to exactly 3 components when it has fewer than 3,
\* and as it is when it has 3 or more.
C1_PadsToThree ==
    (parsed.ok /\ BareEquals) =>
        parsed.version =
            IF Components < 3
            THEN Tail(Constraint) \o Stars(3 - Components)
            ELSE Tail(Constraint)

\* C1, amended: for a constraint that starts with a single '=' and holds no
\* further '=', parse_dep returns the version without the '=', followed by
\* exactly one '*' component when it has fewer than 3 components ('=1'
\* gives '1.*', '=1.2' gives '1.2.*'), and as it is, neither padded nor
\* truncated, when it has 3 or more.
C1_PadsOnce ==
    (parsed.ok /\ BareEquals) =>
        parsed.version =
            IF Components < 3
            THEN Tail(Constraint) \o <<".", "*">>
            ELSE Tail(Constraint)

\* parse_dep has turned '=1' after a name into '1.*'
C1_Witness ==
    /\ parsed.ok /\ BareEquals
    /\ parsed.name # <<>>
    /\ Components = 1
    /\ parsed.version = <<"1", ".", "*">>

\* C5: every pair parse_dep returns has a non-empty name made of word
\* characters and hyphens only, and a token whose first character the name
\* pattern cannot consume fails with MalformedSpec naming the token.
C5_NameNonEmpty ==
    parsed # NoResult =>
        /\ parsed.ok =>
              /\ parsed.name # <<>>
              /\ \A i \in 1..Len(parsed.name) : IsNameChar(parsed.name[i])
        /\ (dep # <<>> /\ ~IsNameChar(dep[1])) =>
              /\ ~parsed.ok
              /\ parsed.err = "MalformedSpec"
              /\ parsed.name = dep

\* the constraint starts with '=' followed by something other than '='
\* (or by nothing): a single bare '='
StartsBare == StartsWith(Constraint, <<"=">>) /\ ~StartsWith(Constraint, <<"=", "=">>)

\* C6: parse_dep returns the constraint '*' when the remainder after the
\* name is empty, the remainder as it is when it is not empty and does not
\* start with a single bare '=', and the remainder as it is, its leading
\* '=' included, when it starts with a single '=' and holds another '='
\* further on.
C6_PassThrough ==
    parsed.ok =>
        /\ Constraint = <<>> => parsed.version = <<"*">>
        /\ (Constraint # <<>> /\ ~StartsBare) => parsed.version = Constraint
        /\ (StartsBare /\ Count(Constraint, "=") > 1) => parsed.version = Constraint

\* parse_dep has returned a compound constraint ('=1>=1' after a name) whole
C6_Witness ==
    /\ parsed.ok
    /\ parsed.name # <<>>
    /\ StartsBare
    /\ Count(Constraint, "=") > 1
    /\ Count(Constraint, ".") > 0
    /\ parsed.version = Constraint

\* ------------------------------------------------------------------------
\* Claims about the Type Classifier (checked under SpecClassify)
\* ------------------------------------------------------------------------

\* the entries of the list passed that are mappings, and those that are strings
Mappings == SelectSeq(passed, LAMBDA e : e.type = "dict")
PlainStrings == SelectSeq(passed, LAMBDA e : e.type = "str")

\* the list passed holds plain strings and mappings only
StringsAndMappings == \A i \in 1..Len(passed) : passed[i].type \in {"str", "dict"}

\* the values of a list of entries
StringsOf(seq) == [i \in 1..Len(seq) |-> seq[i].str]
DictsOf(seq) == [i \in 1..Len(seq) |-> seq[i].dict]

\* C2: for a list of plain strings and at most one mapping, which is then
\* {'pip': L}, split_conda_pip_raw succeeds; the native-list is the string
\* entries in their order; the pip-list is L, or empty without a mapping.
C2_SplitsStringsAndPip ==
    (/\ first # NotSplit
     /\ StringsAndMappings
     /\ Len(Mappings) <= 1
     /\ \A i \in 1..Len(Mappings) : DOMAIN Mappings[i].dict = {"pip"}) =>
        /\ first.ok
        /\ first.conda = StringsOf(PlainStrings)
        /\ first.pip = IF Mappings = <<>> THEN <<>> ELSE Mappings[1].dict["pip"]

\* the mappings of the list passed that lack the 'pip' key
WithoutPip == SelectSeq(Mappings, LAMBDA e : "pip" \notin DOMAIN e.dict)

\* some mapping of the list passed holds 'pip' and a further key
SomePipWithMore ==
    \E i \in 1..Len(Mappings) :
        "pip" \in DOMAIN Mappings[i].dict /\ DOMAIN Mappings[i].dict # {"pip"}

\* C3: for a list of strings and mappings with a mapping that lacks the
\* 'pip' key (and no pip mapping with further keys), classification fails
\* with UnsupportedMappingEntry, which names every mapping lacking 'pip'.
C3_UnsupportedMapping ==
    (/\ first # NotSplit
     /\ StringsAndMappings
     /\ WithoutPip # <<>>
     /\ ~SomePipWithMore) =>
        /\ ~first.ok
        /\ first.err = "UnsupportedMappingEntry"
        /\ first.dicts = DictsOf(WithoutPip)

\* C4: for a list with a mapping that holds 'pip' and a further key,
\* classification fails with MalformedPipEntry and with nothing else,
\* whether or not the list holds plain strings.
C4_MalformedPip ==
    (/\ first # NotSplit
     /\ StringsAndMappings
     /\ SomePipWithMore) =>
        /\ ~first.ok
        /\ first.err = "MalformedPipEntry"

\* C10: a successful split_conda_pip_raw leaves the list and its mappings
\* as they were, and a second call on the same list returns the same pair.
C10_InputUnchanged ==
    first.ok =>
        /\ deps = passed
        /\ second # NotSplit =>
              /\ second.ok
              /\ second.conda = first.conda
              /\ second.pip = first.pip

\* ------------------------------------------------------------------------
\* Claims about a run (checked under Spec)
\* ------------------------------------------------------------------------

\* collect_and_convert has returned
Collected == pc \in {"build", "done"} \/ err = "FileExistsError"

\* the channels the documents loaded name
ChannelsLoaded == UNION {SetOf(loaded[k].chans) : k \in 1..Len(loaded)}

\* C7: once collect_and_convert has returned, the global channel list
\* holds exactly the distinct channels of all documents processed (those
\* of a document overwritten by a later one of the same name included),
\* without duplicates and in ascending order, and is ['conda-forge'] when
\* no document named a channel.
C7_GlobalChannels ==
    Collected =>
        /\ ChannelsLoaded = {} => all_chans = <<CondaForge>>
        /\ ChannelsLoaded # {} => SetOf(all_chans) = ChannelsLoaded
        /\ \A i, j \in 1..Len(all_chans) :
              i < j => StrLess(all_chans[i], all_chans[j])

\* collect_and_convert has returned four channels, one of them named only
\* by a document that a later one of the same name has overwritten
C7_Witness ==
    /\ pc = "build"
    /\ Len(all_chans) = 4
    /\ \E i, j \in 1..Len(loaded) :
          /\ i < j
          /\ loaded[i].name = loaded[j].name
          /\ \E c \in SetOf(loaded[i].chans) :
                \A k \in 1..Len(loaded) : k # i => c \notin SetOf(loaded[k].chans)

\* every document but the last one loaded has converted
EarlierConverted ==
    \A k \in 1..(Len(loaded) - 1) : split_conda_pip(loaded[k].deps).ok

\* C8: the first failure halts the run: no document is loaded after one
\* that failed to convert, and the manifest is written only when every
\* input document has been loaded and converted, and never after a failure.
C8_FailFast ==
    /\ EarlierConverted
    /\ pixi # NoManifest =>
          /\ Len(loaded) = nfiles
          /\ \A k \in 1..Len(loaded) : split_conda_pip(loaded[k].deps).ok
          /\ err = "None"
    /\ err # "None" => pixi = NoManifest /\ pc = "failed"

\* the second document has failed on a malformed token, a third one is
\* left unread and no manifest is written
C8_Witness ==
    /\ pc = "failed"
    /\ err = "MalformedSpec"
    /\ Len(loaded) = 2
    /\ Len(loaded) < nfiles
    /\ pixi = NoManifest

\* the names of the documents loaded
NamesLoaded == {loaded[k].name : k \in 1..Len(loaded)}

\* the last document loaded under the name n
LastNamed(n) ==
    loaded[CHOOSE k \in 1..Len(loaded) :
              /\ loaded[k].name = n
              /\ \A j \in (k + 1)..Len(loaded) : loaded[j].name # n]

\* C9: once collect_and_convert has returned, envs and feat have the names
\* of the documents processed as their keys, envs maps each name n to [n],
\* and feat maps n to the native and pip mappings of the last document
\* processed under that name.
C9_Tables ==
    Collected =>
        /\ DOMAIN envs = NamesLoaded
        /\ DOMAIN feat = NamesLoaded
        /\ \A n \in NamesLoaded :
              /\ envs[n] = <<n>>
              /\ feat[n]["dependencies"] = split_conda_pip(LastNamed(n).deps).conda
              /\ feat[n]["pypi-dependencies"] = split_conda_pip(LastNamed(n).deps).pip

\* collect_and_convert has returned after two documents of one name with
\* different dependencies, and one of another name
C9_Witness ==
    /\ pc = "build"
    /\ Cardinality(NamesLoaded) = 2
    /\ \E i, j \in 1..Len(loaded) :
          /\ i < j
          /\ loaded[i].name = loaded[j].name
          /\ loaded[i].deps # loaded[j].deps
          /\ feat[loaded[j].name]["pypi-dependencies"]
                # split_conda_pip(loaded[i].deps).pip
====
